---- MODULE Spec2Model ----
(***************************************************************************)
(* A model of plan.py: one command-line run of the GitHub contribution     *)
(* planner.  The run parses its arguments, rasterizes the text, maps the   *)
(* bitmap onto the 7 x 52 grid, and writes calendar.png and/or             *)
(* contributions.ics.                                                      *)
(*                                                                         *)
(* Pillow, numpy and datetime are libraries outside plan.py.  Their        *)
(* results are modelled by what they do:                                   *)
(*   - dates are proleptic Gregorian ordinals (date.toordinal()), and      *)
(*     weekday() is (ordinal + 6) % 7, Monday = 0;                         *)
(*   - a rasterized bitmap is its width, its height and the tones of the   *)
(*     picture; Image.resize gives some new_width x new_height array of    *)
(*     8-bit intensities, and refuses a size with a side below 1;          *)
(*   - numpy's uint8 arithmetic is arithmetic modulo 2^8, and np.rint      *)
(*     rounds halves to the even neighbour.                                *)
(*                                                                         *)
(* Spec is the command-line run.  SpecCalendar is the Calendar class on    *)
(* its own, built from any year and matrix and its methods called on it.   *)
(***************************************************************************)
EXTENDS Integers, Sequences, FiniteSets

VARIABLES
    pc,                 \* position of the run in the __main__ block
    args,               \* the namespace returned by parser.parse_args()
    font_loadable,      \* whether ImageFont.truetype can open the font file
    mode,               \* the Mode chosen from --commit-level
    year,               \* the year handed to planner.plan
    ascii_image,        \* the bitmap returned by _text_to_image
    new_width,          \* the width handed to Image.resize
    new_height,         \* the height handed to Image.resize
    img_array,          \* the centered 52 x 7 canvas as an array
    contribution_matrix,\* the matrix the Calendar is built from
    image_size,         \* the size of the image returned by to_image
    first_sunday,       \* the date returned by _get_first_sunday
    contribution_days,  \* the list returned by get_contribution_days
    returned,           \* the functions that have returned a value in this run
    files,              \* the files written by this run
    err                 \* the exception or exit that ended the run

vars == <<pc, args, font_loadable, mode, year, ascii_image, new_width,
          new_height, img_array,
          contribution_matrix, image_size, first_sunday, contribution_days,
          returned, files, err>>

None == "None"

----------------------------------------------------------------------------
(* Bounds of the model *)

\* the years a Calendar is built for: YearBase .. YearBase + YearSpan, and
\* the first and last years of datetime and two century years
YearBase == 2000
YearSpan == 27
\* the rasterized bitmaps are at most MaxWidth x MaxHeight pixels
MaxWidth == 8
MaxHeight == 8
\* the resized picture repeats at most MaxTones tones
MaxTones == 2

----------------------------------------------------------------------------
(* Program constants *)

GithubContributionLevels == 4

\* the default of the size parameter of _image_to_contribution: (52, 7)
GridCols == 52
GridRows == 7

\* the defaults of to_image
cell_size == 20
padding == 2

\* the length of the palette of to_image
NumColors == 5

Min(a, b) == IF a <= b THEN a ELSE b

----------------------------------------------------------------------------
(* datetime *)

\* the ordinal of December 31 of the year before y
DaysBeforeYear(y) ==
    LET p == y - 1 IN p * 365 + p \div 4 - p \div 100 + p \div 400

\* datetime.datetime(y, 1, 1), as an ordinal
Jan1(y) == DaysBeforeYear(y) + 1

\* datetime.weekday(): 0 for Monday, 6 for Sunday
Weekday(date) == (date + 6) % 7

\* datetime.datetime.max, December 31 of year 9999
MaxDate == DaysBeforeYear(10000)

Years == (YearBase .. (YearBase + YearSpan)) \cup {1, 1900, 2100, 9999}

\* the values of --year on the command line; 0 stands for its absence
ArgYears == {0, YearBase, 9999}

\* datetime.datetime.now().year
NowYear == YearBase + YearSpan

----------------------------------------------------------------------------
(* Calendar *)

\* a mutation of DaysToAdd: the days to the next Monday-first week's end,
\* counted from 7
DaysToAddFromSeven(date) == (7 - Weekday(date)) % 7

\* Calendar._get_first_sunday
DaysToAdd(date) == (6 - Weekday(date)) % 7

GetFirstSunday(y) == Jan1(y) + DaysToAdd(Jan1(y))

\* An array is the sequence of its rows: the element [day, week] of the code
\* is matrix[day + 1][week + 1], and shape is (rows, columns).
At(matrix, day, week) == matrix[day + 1][week + 1]
Shape0(matrix) == Len(matrix)
Shape1(matrix) == IF Len(matrix) = 0 THEN 0 ELSE Len(matrix[1])

\* a mutation of Skipped: cells of level 1 are skipped too
SkippedBelowTwo(level) == level <= 1

\* the test of line 36 that makes the loop skip a cell
Skipped(level) == level = 0

\* a mutation of CellOffset: the row and the column exchanged
CellOffsetTransposed(week, day) == day * 7 + week

\* the offset in days of the cell [day, week] from the first Sunday
CellOffset(week, day) == week * 7 + day

\* start_date + datetime.timedelta(days=...)
CurrentDate(start_date, week, day) == start_date + CellOffset(week, day)

\* the k-th cell visited by the nested loops: weeks outside, days inside
VisitWeek(matrix, k) == (k - 1) \div Shape0(matrix)
VisitDay(matrix, k) == (k - 1) % Shape0(matrix)

\* Calendar.get_contribution_days: the list of (date, level) pairs; the
\* addition raises OverflowError when a date to append lies beyond
\* datetime.max
GetContributionDays(start_date, matrix) ==
    LET n == Shape0(matrix) * Shape1(matrix)
        visited == [k \in 1..n |->
                      <<CurrentDate(start_date, VisitWeek(matrix, k), VisitDay(matrix, k)),
                        At(matrix, VisitDay(matrix, k), VisitWeek(matrix, k))>>]
        Kept(pair) == ~Skipped(pair[2])
        days == SelectSeq(visited, Kept)
    IN  [error |-> IF \E i \in 1..Len(days) : days[i][1] > MaxDate
                   THEN "OverflowError" ELSE None,
         days |-> days]

\* a mutation of ToImageSize: a padding after every cell, the last included
ToImageSizePaddedEnd(matrix) ==
    <<cell_size * Len(matrix[1]) + padding * Len(matrix[1]),
      cell_size * Len(matrix) + padding * Len(matrix)>>

\* Calendar.to_image: the size of the canvas
ToImageSize(matrix) ==
    <<cell_size * Shape1(matrix) + padding * (Shape1(matrix) - 1),
      cell_size * Shape0(matrix) + padding * (Shape0(matrix) - 1)>>

\* colors[contribution_level] raises IndexError when a level has no color
ToImageError(matrix) ==
    IF \E row \in 1..Shape0(matrix) : \E col \in 1..Shape1(matrix) :
          matrix[row][col] >= NumColors
    THEN "IndexError" ELSE None

\* Calendar.save_icalendar: each event ends the day after it starts, and
\* day + timedelta(days=1) overflows on datetime.max
SaveICalendarError(result) ==
    IF result.error # None THEN result.error
    ELSE IF \E i \in 1..Len(result.days) : result.days[i][1] + 1 > MaxDate
         THEN "OverflowError"
         ELSE None

----------------------------------------------------------------------------
(* GitHubPlanner *)

\* the intensities a rendered pixel may have
Shades == {0, 15, 45, 255}

\* image_mode of _text_to_image: 'L' has 256 intensities, '1' has black and
\* white only
ImageShades(m) == IF m = "depth" THEN Shades ELSE {0, 255}

\* the bitmaps _text_to_image may return: a width, a height and the tones of
\* the picture; textbbox gives the empty text a bitmap of no pixels
Bitmaps(m) ==
    {[width |-> w, height |-> h, shades |-> t] :
        w \in 1..MaxWidth, h \in 1..MaxHeight,
        t \in {u \in SUBSET ImageShades(m) : Cardinality(u) \in 1..MaxTones}}
    \cup {[width |-> 0, height |-> 0, shades |-> {0}]}

\* the k-th tone of a picture, darkest first
Tone(shades, k) == CHOOSE x \in shades : Cardinality({y \in shades : y < x}) = k

\* new_height = int(size[1])
NewHeight == GridRows

\* a mutation of NewWidth: the width is not capped at size[0]
NewWidthUncapped(image) == (GridRows * image.width) \div image.height

\* new_width = min(int(new_height * aspect_ratio), size[0]).  The product is
\* a float and int() truncates it; whenever the float product differs from
\* the exact quotient new_height * width / height, both are above size[0].
NewWidth(image) == Min((NewHeight * image.width) \div image.height, GridCols)

\* image.resize((new_width, new_height), Image.LANCZOS): some array of that
\* size holding the tones of the picture
Resized(image, w, h) ==
    [r \in 1..h |-> [c \in 1..w |->
        Tone(image.shades, (r + c) % Cardinality(image.shades))]]

\* Image.new('L', size, color='black') with img_resized pasted at
\* (paste_x, paste_y), as np.array gives it: size[1] rows of size[0] pixels
Pasted(img_resized, w, h) ==
    LET paste_x == (GridCols - w) \div 2
        paste_y == (GridRows - h) \div 2
    IN  [r \in 1..GridRows |-> [c \in 1..GridCols |->
            IF /\ c - 1 >= paste_x /\ c - 1 < paste_x + w
               /\ r - 1 >= paste_y /\ r - 1 < paste_y + h
            THEN img_resized[r - paste_y][c - paste_x]
            ELSE 0]]

Values(array) ==
    UNION {{array[r][c] : c \in 1..Len(array[r])} : r \in 1..Len(array)}

ArrayMin(array) == CHOOSE x \in Values(array) : \A y \in Values(array) : x <= y
ArrayMax(array) == CHOOSE x \in Values(array) : \A y \in Values(array) : x >= y

\* a mutation of ZerosLike: the array itself is returned
SameArray(array) == array

\* np.zeros_like(img_array)
ZerosLike(array) == [r \in 1..Len(array) |-> [c \in 1..Len(array[r]) |-> 0]]

\* a mutation of MaxLevel: the mode is ignored
MaxLevelDepthOnly(m) == GithubContributionLevels

MaxLevel(m) == IF m = "depth" THEN GithubContributionLevels ELSE 1

\* np.rint of the quotient n / d: the nearest integer, the even one of two.
\* The float quotient of two 8-bit integers lies within rounding error of the
\* exact one, and a quotient halfway between two integers is a multiple of
\* 1/8 and is computed exactly, so rounding the exact quotient gives np.rint
\* of the float.
RintDiv(n, d) ==
    LET q == n \div d
        twice == 2 * (n % d)
    IN  IF twice < d THEN q
        ELSE IF twice > d THEN q + 1
        ELSE IF q % 2 = 0 THEN q ELSE q + 1

\* one cell of np.rint((img_array - min_val) / (max_val - min_val) * max_level);
\* the differences are uint8
Normalized(pixel, min_val, max_val, max_level) ==
    RintDiv(((pixel - min_val) % 256) * max_level, (max_val - min_val) % 256)

\* lines 145-149, given the extremes of the array
Rescaled(array, min_val, max_val, max_level) ==
    IF min_val = max_val
    THEN ZerosLike(array)
    ELSE [r \in 1..Len(array) |-> [c \in 1..Len(array[r]) |->
            Normalized(array[r][c], min_val, max_val, max_level)]]

\* lines 144-151
Quantized(array, m) ==
    Rescaled(array, ArrayMin(array), ArrayMax(array), MaxLevel(m))

\* GitHubPlanner._image_to_contribution
ImageToContributionError(image) ==
    IF image.height = 0 THEN "ZeroDivisionError"
    ELSE IF NewWidth(image) < 1 \/ NewHeight < 1 THEN "ValueError"
    ELSE None

\* a mutation of TextToImageError: a font that cannot be opened is replaced
\* silently by a default one
TextToImageNeverFails(loadable) == None

\* GitHubPlanner._text_to_image: ImageFont.truetype raises OSError when it
\* cannot open the font
TextToImageError(loadable) == IF loadable THEN None ELSE "OSError"

----------------------------------------------------------------------------
(* One run of the __main__ block *)

NoArray == <<>>

Init ==
    /\ pc = "main"
    /\ args \in [year : ArgYears, commit_level : BOOLEAN,
                 save_icalendar : BOOLEAN, save_image : BOOLEAN]
    /\ font_loadable \in BOOLEAN
    /\ mode = None
    /\ year = 0
    /\ ascii_image = [width |-> 0, height |-> 0, shades |-> {0}]
    /\ new_width = 0
    /\ new_height = 0
    /\ img_array = NoArray
    /\ contribution_matrix = NoArray
    /\ image_size = <<0, 0>>
    /\ first_sunday = 0
    /\ contribution_days = <<>>
    /\ returned = {}
    /\ files = {}
    /\ err = None

\* lines 163-172: parse_args, the check of the export flags, the defaults
ParseArgs ==
    /\ pc = "main"
    /\ IF ~args.save_icalendar /\ ~args.save_image
       THEN /\ pc' = "exit"
            /\ err' = "usage"
            /\ UNCHANGED <<mode, year>>
       ELSE /\ pc' = "_text_to_image"
            /\ mode' = IF args.commit_level THEN "depth" ELSE "plain"
            /\ year' = IF args.year # 0 THEN args.year ELSE NowYear
            /\ err' = None
    /\ UNCHANGED <<args, font_loadable, ascii_image, new_width,
                   new_height, img_array,
                   contribution_matrix, image_size, first_sunday,
                   contribution_days, returned, files>>

\* planner.plan, line 97: _text_to_image
TextToImage ==
    /\ pc = "_text_to_image"
    /\ IF TextToImageError(font_loadable) # None
       THEN /\ pc' = "exit"
            /\ err' = TextToImageError(font_loadable)
            /\ UNCHANGED <<ascii_image, returned>>
       ELSE /\ \E image \in Bitmaps(mode) : ascii_image' = image
            /\ pc' = "_image_to_contribution"
            /\ returned' = returned \cup {"_text_to_image"}
            /\ err' = None
    /\ UNCHANGED <<args, font_loadable, mode, year, new_width, new_height,
                   img_array,
                   contribution_matrix, image_size, first_sunday,
                   contribution_days, files>>

\* planner.plan, lines 98-100: _image_to_contribution and Calendar(...)
ImageToContribution ==
    /\ pc = "_image_to_contribution"
    /\ IF ImageToContributionError(ascii_image) # None
       THEN /\ pc' = "exit"
            /\ err' = ImageToContributionError(ascii_image)
            /\ new_width' = IF ascii_image.height = 0 THEN new_width
                            ELSE NewWidth(ascii_image)
            /\ new_height' = IF ascii_image.height = 0 THEN new_height
                             ELSE NewHeight
            /\ UNCHANGED <<img_array, contribution_matrix, returned>>
       ELSE /\ new_width' = NewWidth(ascii_image)
            /\ new_height' = NewHeight
            /\ img_array' = Pasted(Resized(ascii_image, NewWidth(ascii_image), NewHeight),
                                   NewWidth(ascii_image), NewHeight)
            /\ contribution_matrix' = Quantized(img_array', mode)
            /\ pc' = "save_image"
            /\ returned' = returned \cup {"_image_to_contribution"}
            /\ err' = None
    /\ UNCHANGED <<args, font_loadable, mode, year, ascii_image, image_size,
                   first_sunday, contribution_days, files>>

\* lines 175-176: calendar.to_image().save("calendar.png")
SaveImage ==
    /\ pc = "save_image"
    /\ IF ~args.save_image
       THEN /\ pc' = "save_icalendar"
            /\ UNCHANGED <<image_size, returned, files, err>>
       ELSE IF ToImageError(contribution_matrix) # None
       THEN /\ pc' = "exit"
            /\ err' = ToImageError(contribution_matrix)
            /\ UNCHANGED <<image_size, returned, files>>
       ELSE /\ image_size' = ToImageSize(contribution_matrix)
            /\ returned' = returned \cup {"to_image"}
            /\ files' = files \cup {"calendar.png"}
            /\ pc' = "save_icalendar"
            /\ err' = None
    /\ UNCHANGED <<args, font_loadable, mode, year, ascii_image, new_width,
                   new_height, img_array, contribution_matrix, first_sunday,
                   contribution_days>>

\* lines 178-179: calendar.save_icalendar("contributions.ics")
SaveICalendar ==
    /\ pc = "save_icalendar"
    /\ pc' = "exit"
    /\ IF ~args.save_icalendar
       THEN UNCHANGED <<first_sunday, contribution_days, returned, files, err>>
       ELSE LET result == GetContributionDays(GetFirstSunday(year), contribution_matrix)
            IN  /\ first_sunday' = GetFirstSunday(year)
                /\ IF result.error # None
                   THEN /\ err' = result.error
                        /\ returned' = returned \cup {"_get_first_sunday"}
                        /\ UNCHANGED <<contribution_days, files>>
                   ELSE /\ contribution_days' = result.days
                        /\ returned' = returned \cup
                              {"_get_first_sunday", "get_contribution_days"}
                        /\ err' = SaveICalendarError(result)
                        /\ files' = IF SaveICalendarError(result) = None
                                    THEN files \cup {"contributions.ics"}
                                    ELSE files
    /\ UNCHANGED <<args, font_loadable, mode, year, ascii_image, new_width,
                   new_height, img_array, contribution_matrix, image_size>>

Next ==
    \/ ParseArgs
    \/ TextToImage
    \/ ImageToContribution
    \/ SaveImage
    \/ SaveICalendar

Spec == Init /\ [][Next]_vars

----------------------------------------------------------------------------
(* The Calendar class on its own: a Calendar built from any year and any    *)
(* matrix of the grid's shape, and its methods called on it.               *)

\* the matrices a Calendar is built from: stripes of the levels of a set
Matrices ==
    {[r \in 1..GridRows |-> [c \in 1..GridCols |->
         Tone(levels, ((r - 1) + (c - 1)) % Cardinality(levels))]] :
       levels \in (SUBSET (0..GithubContributionLevels)) \ {{}}}

InitCalendar ==
    /\ pc = "Calendar"
    /\ args = [year |-> 0, commit_level |-> FALSE,
               save_icalendar |-> FALSE, save_image |-> FALSE]
    /\ font_loadable = TRUE
    /\ mode = None
    /\ year \in Years
    /\ ascii_image = [width |-> 0, height |-> 0, shades |-> {0}]
    /\ new_width = 0
    /\ new_height = 0
    /\ img_array = NoArray
    /\ contribution_matrix \in Matrices
    /\ image_size = <<0, 0>>
    /\ first_sunday = 0
    /\ contribution_days = <<>>
    /\ returned = {}
    /\ files = {}
    /\ err = None

\* calendar._get_first_sunday()
CallGetFirstSunday ==
    /\ pc = "Calendar"
    /\ "_get_first_sunday" \notin returned
    /\ first_sunday' = GetFirstSunday(year)
    /\ returned' = returned \cup {"_get_first_sunday"}
    /\ UNCHANGED <<pc, args, font_loadable, mode, year, ascii_image, new_width,
                   new_height, img_array, contribution_matrix, image_size,
                   contribution_days, files, err>>

\* calendar.get_contribution_days()
CallGetContributionDays ==
    /\ pc = "Calendar"
    /\ "get_contribution_days" \notin returned
    /\ err = None
    /\ LET result == GetContributionDays(GetFirstSunday(year), contribution_matrix)
       IN  IF result.error # None
           THEN /\ err' = result.error
                /\ UNCHANGED <<contribution_days, returned>>
           ELSE /\ contribution_days' = result.days
                /\ returned' = returned \cup {"get_contribution_days"}
                /\ err' = None
    /\ UNCHANGED <<pc, args, font_loadable, mode, year, ascii_image, new_width,
                   new_height, img_array, contribution_matrix, image_size, first_sunday,
                   files>>

\* calendar.to_image()
CallToImage ==
    /\ pc = "Calendar"
    /\ "to_image" \notin returned
    /\ ToImageError(contribution_matrix) = None
    /\ image_size' = ToImageSize(contribution_matrix)
    /\ returned' = returned \cup {"to_image"}
    /\ UNCHANGED <<pc, args, font_loadable, mode, year, ascii_image, new_width,
                   new_height, img_array, contribution_matrix, first_sunday,
                   contribution_days, files, err>>

NextCalendar ==
    \/ CallGetFirstSunday
    \/ CallGetContributionDays
    \/ CallToImage

SpecCalendar == InitCalendar /\ [][NextCalendar]_vars

----------------------------------------------------------------------------
(* Properties *)

Planned == "_image_to_contribution" \in returned

\* _image_to_contribution has been called on a bitmap of positive width and
\* height, and has returned or raised
MappedPositiveBitmap ==
    /\ "_text_to_image" \in returned
    /\ pc # "_image_to_contribution"
    /\ ascii_image.width > 0
    /\ ascii_image.height > 0

IsGridShaped(matrix) ==
    /\ Len(matrix) = 7
    /\ \A r \in 1..Len(matrix) : Len(matrix[r]) = 52

\* C1: every cell of the matrix returned by _image_to_contribution is an
\* integer between 0 and the maximum level, 4 in depth mode and 1 in plain
\* mode.
C1_CellsWithinLevels ==
    Planned =>
        \A r \in 1..Len(contribution_matrix) :
            \A c \in 1..Len(contribution_matrix[r]) :
                /\ contribution_matrix[r][c] \in Int
                /\ contribution_matrix[r][c] >= 0
                /\ contribution_matrix[r][c] <= (IF mode = "depth" THEN 4 ELSE 1)

\* a depth-mode matrix holding the top level and an intermediate one
C1_Witness ==
    /\ Planned
    /\ mode = "depth"
    /\ \E r \in 1..Len(contribution_matrix) :
          \E c \in 1..Len(contribution_matrix[r]) : contribution_matrix[r][c] = 4
    /\ \E r \in 1..Len(contribution_matrix) :
          \E c \in 1..Len(contribution_matrix[r]) : contribution_matrix[r][c] \in 1..3

\* C2: for every bitmap of positive width and height, _image_to_contribution
\* completes and returns a matrix of exactly 7 rows and 52 columns.
C2_AlwaysGridShaped ==
    MappedPositiveBitmap => (Planned /\ IsGridShaped(contribution_matrix))

\* C8: when the centered canvas has one intensity only, the matrix returned
\* is 7 x 52 and all zero, in either mode.
C8_UniformGivesZeros ==
    (Planned /\ ArrayMin(img_array) = ArrayMax(img_array)) =>
        /\ IsGridShaped(contribution_matrix)
        /\ \A r \in 1..Len(contribution_matrix) :
              \A c \in 1..Len(contribution_matrix[r]) : contribution_matrix[r][c] = 0

\* a canvas that is white all over
C8_Witness ==
    /\ Planned
    /\ ArrayMin(img_array) = 255
    /\ ArrayMax(img_array) = 255

\* C9 as stated: the width handed to the resize is
\* min(round(7 * w / h), 52), and the height is 7.
C9_RoundedWidth ==
    MappedPositiveBitmap =>
        /\ new_width = Min(RintDiv(7 * ascii_image.width, ascii_image.height), 52)
        /\ new_height = 7

\* C9, amended: the width handed to the resize is min(floor(7 * w / h), 52),
\* the quotient truncated and not rounded, and the height is 7.
C9_TruncatedWidth ==
    MappedPositiveBitmap =>
        /\ new_height = 7
        /\ new_width \in 0..52
        /\ new_width * ascii_image.height <= 7 * ascii_image.width
        /\ \/ new_width = 52
           \/ 7 * ascii_image.width < (new_width + 1) * ascii_image.height

\* a bitmap half as wide as tall: 7 * 1 / 2 = 3.5 is truncated to 3
C9_Witness ==
    /\ Planned
    /\ ascii_image.width = 1
    /\ ascii_image.height = 2
    /\ new_width = 3

\* C7: a run whose font cannot be loaded, or that names neither -o nor -s,
\* writes neither calendar.png nor contributions.ics.
C7_NoOutputOnFatalError ==
    (~font_loadable \/ (~args.save_icalendar /\ ~args.save_image)) =>
        /\ "calendar.png" \notin files
        /\ "contributions.ics" \notin files

\* a run that asked for both files and ended on the font's failure
C7_Witness ==
    /\ pc = "exit"
    /\ err = "OSError"
    /\ args.save_image
    /\ args.save_icalendar
    /\ files = {}

----------------------------------------------------------------------------
(* Properties of the Calendar class *)

\* the sum of seq[lo] .. seq[hi]
RECURSIVE SumSeq(_, _, _)
SumSeq(seq, lo, hi) ==
    IF lo > hi THEN 0
    ELSE IF lo = hi THEN seq[lo]
    ELSE LET mid == (lo + hi) \div 2
         IN  SumSeq(seq, lo, mid) + SumSeq(seq, mid + 1, hi)

SumLevels(days) == SumSeq([i \in 1..Len(days) |-> days[i][2]], 1, Len(days))

SumCells(matrix) ==
    SumSeq([r \in 1..Len(matrix) |-> SumSeq(matrix[r], 1, Len(matrix[r]))],
           1, Len(matrix))

ZeroCells(matrix) ==
    {p \in (1..Len(matrix)) \X (1..52) : matrix[p[1]][p[2]] = 0}

\* C3: _get_first_sunday returns a Sunday between January 1 and January 7 of
\* the year, January 1 itself when that is a Sunday, and 2024-01-07 for 2024.
\* (Ordinal 1 is a Monday, so the Sundays are the multiples of 7.)
C3_FirstSundayInFirstWeek ==
    "_get_first_sunday" \in returned =>
        /\ first_sunday % 7 = 0
        /\ first_sunday >= Jan1(year)
        /\ first_sunday <= Jan1(year) + 6
        /\ (Jan1(year) % 7 = 0 => first_sunday = Jan1(year))
        /\ (year = 2024 => first_sunday = 738892)

\* the first Sunday of 2024 has been computed
C3_Witness ==
    /\ "_get_first_sunday" \in returned
    /\ year = 2024
    /\ first_sunday = Jan1(2024) + 6

\* C4: the list returned by get_contribution_days has 52 * 7 entries less
\* the zero cells, which are skipped, and its levels add up to the sum of the
\* cells of the matrix.
C4_LengthAndSum ==
    "get_contribution_days" \in returned =>
        /\ Len(contribution_days) = 52 * 7 - Cardinality(ZeroCells(contribution_matrix))
        /\ SumLevels(contribution_days) = SumCells(contribution_matrix)

\* a list from a matrix with zero cells and cells of several levels
C4_Witness ==
    /\ "get_contribution_days" \in returned
    /\ Len(contribution_days) > 0
    /\ Len(contribution_days) < 52 * 7
    /\ \E i \in 1..Len(contribution_days) : contribution_days[i][2] >= 2

\* C5: every pair of the list is the date firstSunday + (col * 7 + row) and
\* the level of a cell (row, col), and the dates are strictly increasing, so
\* the cells come week by week and day by day within the week.
C5_DatesOfCells ==
    "get_contribution_days" \in returned =>
        /\ \A i \in 1..Len(contribution_days) :
              LET offset == contribution_days[i][1] - GetFirstSunday(year)
                  col == offset \div 7
                  row == offset % 7
              IN  /\ offset >= 0
                  /\ col < 52
                  /\ contribution_days[i][2] = contribution_matrix[row + 1][col + 1]
                  /\ contribution_days[i][2] # 0
        /\ \A i \in 1..(Len(contribution_days) - 1) :
              contribution_days[i][1] < contribution_days[i + 1][1]

\* a list whose first cell was skipped and that holds two levels
C5_Witness ==
    /\ "get_contribution_days" \in returned
    /\ Len(contribution_days) >= 2
    /\ contribution_days[1][1] > GetFirstSunday(year)
    /\ contribution_days[1][2] # contribution_days[2][2]

\* C6 as stated: to_image with its defaults returns an image of 1142 x 146
\* pixels for a 7 x 52 matrix.
C6_Size1142x146 ==
    "to_image" \in returned => image_size = <<1142, 146>>

\* C6, amended: to_image with its defaults returns an image of 1142 x 152
\* pixels for a 7 x 52 matrix: 20 * 52 + 2 * 51 wide and 20 * 7 + 2 * 6 high.
C6_Size1142x152 ==
    "to_image" \in returned => image_size = <<1142, 152>>

\* an image rendered from a matrix of the grid's shape
C6_Witness ==
    /\ "to_image" \in returned
    /\ IsGridShaped(contribution_matrix)
    /\ image_size[1] = 20 * 52 + 2 * 51
    /\ image_size[2] = 20 * 7 + 2 * 6

\* C10: every date returned by get_contribution_days lies between January 1
\* and December 31 of the Calendar's year.
C10_DatesWithinYear ==
    "get_contribution_days" \in returned =>
        \A i \in 1..Len(contribution_days) :
            /\ contribution_days[i][1] >= Jan1(year)
            /\ contribution_days[i][1] <= Jan1(year + 1) - 1

====
